---- MODULE Spec2Model ----
(***************************************************************************)
(* The Klaviyo/Shopify serverless endpoints: one invocation of one handler *)
(* at a time.  The platform hands a request to a handler, the handler      *)
(* validates it, issues downstream calls to Klaviyo one await at a time,   *)
(* and sends a response.  Klaviyo's answers are inputs: any status,        *)
(* content type and body of the sets below, or a network failure.          *)
(*                                                                         *)
(* The repository holds several revisions of some endpoints; each is a     *)
(* handler of its own here:                                                *)
(*   health          src/api/health.js:8                                   *)
(*   subscribe_v1    src/api/health.js:191                                 *)
(*   subscribe       src/api/subscribe.js:69                               *)
(*   unsubscribe     src/api/unsubscribe.js:52  (looks the profile up)     *)
(*   unsubscribe_v1  src/unnamed/part_000:101                              *)
(*   unsubscribe_v2  src/unnamed/part_000:183                              *)
(*   lists           src/api/lists.js:11                                   *)
(*   profile         src/api/profile.js:140                                *)
(*   preferences     src/api/preferences.js:167                            *)
(*   preferences_v2  src/unnamed/part_001:113                              *)
(***************************************************************************)
EXTENDS Integers, Sequences, FiniteSets, TLC

VARIABLES
    ep,        \* the handler invoked ("" before a request arrives)
    req,       \* the request
    pc,        \* "idle" | "start" | "await" | "ready" | "done"
    site,      \* the await the handler is suspended at (the downstream call)
    inflight,  \* downstream calls sent and not yet completed
    calls,     \* the downstream calls issued, in order
    last,      \* the downstream response the handler is resuming with
    profile,   \* the handler's `profile` local
    lookups,   \* what each lookup of a getProfileByShopifyId chain returned
    written,   \* the profile properties of the last write sent downstream
    hist,      \* what happened downstream so far (history)
    acao,      \* the response's Access-Control-Allow-Origin header ("" unset)
    res,       \* the response sent
    apiKey     \* process.env.KLAVIYO_PRIVATE_API_KEY of the deployment

vars == <<ep, req, pc, site, inflight, calls, last, profile, lookups, written,
          hist, acao, res, apiKey>>

-----------------------------------------------------------------------------
(* JavaScript values the handlers look into *)

\* a JS string is its sequence of characters; null/undefined is NULL
Str(s) == [t |-> "str", s |-> s]
NULL == [t |-> "null", s |-> <<>>]
Falsy(v) == v.t = "null" \/ v.s = <<>>

Q == "\""
MENS == <<Q, "M", "e", "n", "s", "w", "e", "a", "r", Q>>
WOMENS == <<Q, "W", "o", "m", "e", "n", "s", "w", "e", "a", "r", Q>>

\* String.prototype.includes
includes(s, sub) ==
    \E i \in 0..(Len(s) - Len(sub)) : SubSeq(s, i + 1, i + Len(sub)) = sub

\* a faulty VALID_PREFERENCES: a fifth value is let through
VALID_PREFERENCES_lax == {"menswear", "womenswear", "both", "no_preference", "shoes"}

VALID_PREFERENCES == {"menswear", "womenswear", "both", "no_preference"}

\* PREFERENCE_MAP[v] ?? null
PREFERENCE_MAP(v) ==
    CASE v = "menswear" -> Str(MENS)
      [] v = "womenswear" -> Str(WOMENS)
      [] v = "both" -> Str(MENS \o <<",">> \o WOMENS)
      [] v = "no_preference" -> NULL
      [] OTHER -> NULL

\* a faulty parsePreference: the two single-tag results exchanged
parsePreference_flip(raw) ==
    IF Falsy(raw) THEN "no_preference"
    ELSE LET hasMens == includes(raw.s, MENS)
             hasWomens == includes(raw.s, WOMENS)
         IN  IF hasMens /\ hasWomens THEN "both"
             ELSE IF hasMens THEN "womenswear"
             ELSE IF hasWomens THEN "menswear"
             ELSE "no_preference"

\* src/unnamed/part_001:15
parsePreference_v2(raw) ==
    IF Falsy(raw) THEN "no_preference"
    ELSE LET hasMens == includes(raw.s, MENS)
             hasWomens == includes(raw.s, WOMENS)
         IN  IF hasMens /\ hasWomens THEN "both"
             ELSE IF hasMens THEN "menswear"
             ELSE IF hasWomens THEN "womenswear"
             ELSE "no_preference"

\* src/api/profile.js:5
parsePreference(raw) ==
    IF Falsy(raw) THEN "no_preference"
    ELSE LET hasMens == includes(raw.s, MENS)
             hasWomens == includes(raw.s, WOMENS)
         IN  IF hasMens /\ hasWomens THEN "both"
             ELSE IF hasMens THEN "menswear"
             ELSE IF hasWomens THEN "womenswear"
             ELSE "no_preference"

-----------------------------------------------------------------------------
(* Requests *)

Handlers ==
    {"health", "subscribe_v1", "subscribe", "unsubscribe", "unsubscribe_v1",
     "unsubscribe_v2", "lists", "profile", "preferences", "preferences_v2"}

Methods == {"GET", "POST", "PATCH", "OPTIONS", "DELETE"}

\* an email field: absent/empty, well formed, or a non-empty string that
\* /^[^\s@]+@[^\s@]+\.[^\s@]+$/ rejects
NoEmail == <<>>
GoodEmail == <<"a", "@", "b", ".", "c">>
BadEmail == <<"a", "@", "b">>
Emails == {NoEmail, GoodEmail, BadEmail}

ShopifyIds == {"", "12345"}

Prefs == {""} \cup VALID_PREFERENCES \cup {"shoes"}

\* req.body: undefined, a parsed object, a string holding JSON, a string
\* that is not JSON.  A GET's fields come from req.query, always an object.
Bodies == {"none", "object", "json_string", "bad_string"}

NoFields(m, b) ==
    [method |-> m, body |-> b, email |-> NoEmail, shopifyId |-> "",
     pref |-> "", debug |-> FALSE]

\* the requests a handler is tried on: every method; for the methods it
\* reads input from, every combination of the fields it branches on, as a
\* parsed object; a malformed email and a body sent as a JSON string with
\* the other fields at one value each
Requests(h) ==
    LET bare == {NoFields(m, "none") : m \in Methods}
        nobody(ms) == {NoFields(m, b) : m \in ms, b \in {"none", "bad_string"}}
        withBody(ms, ids, ps) ==
            {[method |-> m, body |-> "object", email |-> e, shopifyId |-> s,
              pref |-> p, debug |-> FALSE] :
                m \in ms, e \in {NoEmail, GoodEmail}, s \in ids, p \in ps}
            \cup {[method |-> m, body |-> "object", email |-> BadEmail,
                   shopifyId |-> "", pref |-> "", debug |-> FALSE] : m \in ms}
            \cup {[method |-> m, body |-> "json_string", email |-> e,
                   shopifyId |-> "", pref |-> "", debug |-> FALSE] :
                    m \in ms, e \in {NoEmail, GoodEmail}}
        query(ids, ds) ==
            {[method |-> "GET", body |-> "none", email |-> e, shopifyId |-> s,
              pref |-> "", debug |-> d] :
                e \in {NoEmail, GoodEmail}, s \in ids, d \in ds}
            \cup {[method |-> "GET", body |-> "none", email |-> BadEmail,
                   shopifyId |-> "", pref |-> "", debug |-> FALSE]}
    IN  CASE h \in {"health", "lists"} -> bare
          [] h \in {"subscribe_v1", "subscribe", "unsubscribe", "unsubscribe_v1",
                    "unsubscribe_v2"} ->
                bare \cup nobody({"POST"}) \cup withBody({"POST"}, {""}, {""})
          [] h = "profile" ->
                bare \cup nobody({"POST", "PATCH"})
                     \cup withBody({"POST", "PATCH"}, ShopifyIds, {""})
                     \cup query(ShopifyIds, BOOLEAN)
          [] OTHER ->
                bare \cup nobody({"POST"}) \cup withBody({"POST"}, ShopifyIds, Prefs)
                     \cup query(ShopifyIds, {FALSE})

NoReq == NoFields("", "none")

\* the private API keys a deployment is configured with: one longer than the
\* six characters the debug branch cuts off, one shorter
Keys ==
    {<<"p", "k", "_", "a", "1", "b", "2", "c", "3">>, <<"p", "k", "_", "z">>}

\* String.prototype.substring(0, n)
substring(s, n) == SubSeq(s, 1, IF n < Len(s) THEN n ELSE Len(s))

-----------------------------------------------------------------------------
(* Klaviyo's answers *)

Statuses == {200, 202, 204, 400, 500}
ok(status) == status >= 200 /\ status <= 299

ContentTypes == {"", "text/html", "application/vnd.api+json"}
\* contentType.includes('application/')
isApplication(ct) == ct = "application/vnd.api+json"

\* what properties.preference may hold
RawValues ==
    {NULL, Str(<<>>), Str(MENS), Str(WOMENS),
     Str(MENS \o <<",">> \o WOMENS), Str(WOMENS \o <<",">> \o MENS),
     Str(<<"M", "e", "n", "s", "w", "e", "a", "r">>)}

\* a profile resource: the two properties the handlers read
Profiles ==
    {[preference |-> r, marketing_preference |-> ""] : r \in RawValues}
    \cup {[preference |-> NULL, marketing_preference |-> "womenswear"]}

NoProfile == [preference |-> NULL, marketing_preference |-> "none"]

\* an entry of a JSON:API errors list ("" is an absent field)
ErrorEntries ==
    {[detail |-> "Invalid input", title |-> "Bad Request"],
     [detail |-> "", title |-> "Bad Request"],
     [detail |-> "", title |-> ""]}

\* the longest data or errors list Klaviyo answers with
MaxListLen == 2

\* the lists of at most n entries: any first entry of `firsts`, then `other`s
Lists(firsts, other, n) ==
    {<<>>} \cup {<<f>> \o [i \in 1..k |-> other] : f \in firsts, k \in 0..(n - 1)}

OtherProfile == [preference |-> Str(WOMENS), marketing_preference |-> "menswear"]
OtherError == [detail |-> "Other detail", title |-> "Other title"]

\* a response body: not JSON, or an object with an optional data list and
\* an optional errors list
NotJson == [json |-> FALSE, hasData |-> FALSE, data |-> <<>>,
            hasErrors |-> FALSE, errors |-> <<>>]
JsonBody(hd, d, he, e) ==
    [json |-> TRUE, hasData |-> hd, data |-> d, hasErrors |-> he, errors |-> e]
ResponseBodies ==
    {NotJson, JsonBody(FALSE, <<>>, FALSE, <<>>)}
    \cup {JsonBody(TRUE, d, FALSE, <<>>) : d \in Lists(Profiles, OtherProfile, MaxListLen)}
    \cup {JsonBody(FALSE, <<>>, TRUE, e) : e \in Lists(ErrorEntries, OtherError, MaxListLen)}

\* fetch resolves with a response, or rejects (net)
FetchFailed == [net |-> TRUE, status |-> 0, ct |-> "", body |-> NotJson]
Responses ==
    {[net |-> FALSE, status |-> s, ct |-> c, body |-> b] :
        s \in Statuses, c \in ContentTypes, b \in ResponseBodies}
    \cup {FetchFailed}
NoResponse == [net |-> FALSE, status |-> 0, ct |-> "", body |-> NotJson]

-----------------------------------------------------------------------------
(* The klaviyoRequest helpers.  Each takes the response fetch gave and     *)
(* returns or throws: [threw, msg, val, parsed, body], val one of "null",  *)
(* "accepted" ({accepted: true}) and "data" (the parsed body).             *)

Throw(m, p) == [threw |-> TRUE, msg |-> m, val |-> "null", parsed |-> p, body |-> NotJson]
Return(v, p, b) == [threw |-> FALSE, msg |-> <<>>, val |-> v, parsed |-> p, body |-> b]

\* the errors fetch and response.json() reject with
FetchError == <<"fetch failed">>
JsonError == <<"Unexpected token in JSON">>
TypeError == <<"Cannot destructure property of undefined">>

statusText(status) ==
    CASE status = 400 -> "Bad Request"
      [] status = 500 -> "Internal Server Error"
      [] status = 200 -> "OK"
      [] status = 202 -> "Accepted"
      [] OTHER -> "No Content"

\* data.errors?.[0]?.detail and data.errors?.[0]?.title ("" is undefined)
firstDetail(b) == IF b.hasErrors /\ Len(b.errors) > 0 THEN b.errors[1].detail ELSE ""
firstTitle(b) == IF b.hasErrors /\ Len(b.errors) > 0 THEN b.errors[1].title ELSE ""

\* src/api/unsubscribe.js:4
klaviyoRequest_unsubscribe(r) ==
    IF r.net THEN Throw(FetchError, FALSE)
    ELSE IF r.status = 202 \/ r.status = 204 THEN Return("null", FALSE, NotJson)
    ELSE IF ~r.body.json THEN Throw(JsonError, TRUE)
    ELSE IF ~ok(r.status)
         THEN Throw(IF firstDetail(r.body) # "" THEN <<firstDetail(r.body)>>
                    ELSE <<"Klaviyo error">>, TRUE)
    ELSE Return("data", TRUE, r.body)

\* src/api/subscribe.js:11
klaviyoRequest_subscribe(r) ==
    IF r.net THEN Throw(FetchError, FALSE)
    ELSE IF r.status = 202 \/ r.status = 204 THEN Return("null", FALSE, NotJson)
    ELSE IF ~r.body.json THEN Throw(JsonError, TRUE)
    ELSE IF ~ok(r.status)
         THEN Throw(IF firstDetail(r.body) # "" THEN <<firstDetail(r.body)>>
                    ELSE <<"Klaviyo error ", ToString(r.status)>>, TRUE)
    ELSE Return("data", TRUE, r.body)

\* src/unnamed/part_000:163
klaviyoRequest_unsubscribe_v2(r) ==
    IF r.net THEN Throw(FetchError, FALSE)
    ELSE IF r.status = 202 \/ r.status = 204 THEN Return("null", FALSE, NotJson)
    ELSE IF ~r.body.json THEN Throw(JsonError, TRUE)
    ELSE IF ~ok(r.status)
         THEN Throw(IF firstDetail(r.body) # "" THEN <<firstDetail(r.body)>>
                    ELSE <<"Klaviyo error ", ToString(r.status)>>, TRUE)
    ELSE Return("data", TRUE, r.body)

\* a faulty klaviyoRequest: a failed call is swallowed and null returned, so
\* the caller carries on
klaviyoRequest_profile_lenient(r) ==
    IF r.net \/ ~ok(r.status) THEN Return("null", FALSE, NotJson)
    ELSE IF r.status = 202 \/ r.status = 204 THEN Return("null", FALSE, NotJson)
    ELSE IF ~isApplication(r.ct) THEN Return("null", FALSE, NotJson)
    ELSE IF ~r.body.json THEN Throw(JsonError, TRUE)
    ELSE Return("data", TRUE, r.body)

\* src/api/profile.js:22
klaviyoRequest_profile(r) ==
    IF r.net THEN Throw(FetchError, FALSE)
    ELSE IF r.status = 202 \/ r.status = 204 THEN Return("null", FALSE, NotJson)
    ELSE IF ~isApplication(r.ct)
         THEN IF ~ok(r.status)
              THEN Throw(<<"Klaviyo API error: ", ToString(r.status)>>, FALSE)
              ELSE Return("null", FALSE, NotJson)
    ELSE IF ~r.body.json THEN Throw(JsonError, TRUE)
    ELSE IF ~ok(r.status)
         THEN Throw(IF firstDetail(r.body) # "" THEN <<firstDetail(r.body)>>
                    ELSE <<"Klaviyo error ", ToString(r.status)>>, TRUE)
    ELSE Return("data", TRUE, r.body)

\* src/unnamed/part_001:32
klaviyoRequest_preferences_v2(r) ==
    IF r.net THEN Throw(FetchError, FALSE)
    ELSE IF r.status = 202 \/ r.status = 204 THEN Return("null", FALSE, NotJson)
    ELSE IF ~isApplication(r.ct)
         THEN IF ~ok(r.status)
              THEN Throw(<<"Klaviyo API error: ", ToString(r.status)>>, FALSE)
              ELSE Return("null", FALSE, NotJson)
    ELSE IF ~r.body.json THEN Throw(JsonError, TRUE)
    ELSE IF ~ok(r.status)
         THEN Throw(IF firstDetail(r.body) # "" THEN <<firstDetail(r.body)>>
                    ELSE <<"Klaviyo error ", ToString(r.status)>>, TRUE)
    ELSE Return("data", TRUE, r.body)

\* the message of the verbose helpers: detail || title || 'Unknown error'
errorMessage(b) ==
    IF firstDetail(b) # "" THEN firstDetail(b)
    ELSE IF firstTitle(b) # "" THEN firstTitle(b)
    ELSE "Unknown error"

\* src/api/health.js:50
klaviyoRequest_subscribe_v1(r) ==
    IF r.net THEN Throw(FetchError, FALSE)
    ELSE IF r.status = 202 \/ r.status = 204 THEN Return("accepted", FALSE, NotJson)
    ELSE IF ~isApplication(r.ct)
         THEN IF ~ok(r.status)
              THEN Throw(<<"Klaviyo API error: ", ToString(r.status), " ",
                           statusText(r.status)>>, FALSE)
              ELSE Return("null", FALSE, NotJson)
    ELSE IF ~r.body.json THEN Throw(JsonError, TRUE)
    ELSE IF ~ok(r.status)
         THEN Throw(<<"Klaviyo API error: ", errorMessage(r.body)>>, TRUE)
    ELSE Return("data", TRUE, r.body)

\* src/unnamed/part_000:13
klaviyoRequest_unsubscribe_v1(r) ==
    IF r.net THEN Throw(FetchError, FALSE)
    ELSE IF r.status = 202 \/ r.status = 204 THEN Return("accepted", FALSE, NotJson)
    ELSE IF ~isApplication(r.ct)
         THEN IF ~ok(r.status)
              THEN Throw(<<"Klaviyo API error: ", ToString(r.status), " ",
                           statusText(r.status)>>, FALSE)
              ELSE Return("null", FALSE, NotJson)
    ELSE IF ~r.body.json THEN Throw(JsonError, TRUE)
    ELSE IF ~ok(r.status)
         THEN Throw(<<"Klaviyo API error: ", errorMessage(r.body)>>, TRUE)
    ELSE Return("data", TRUE, r.body)

\* src/api/preferences.js:19 (no 202/204 branch)
klaviyoRequest_preferences(r) ==
    IF r.net THEN Throw(FetchError, FALSE)
    ELSE IF ~isApplication(r.ct)
         THEN IF ~ok(r.status)
              THEN Throw(<<"Klaviyo API error: ", ToString(r.status), " ",
                           statusText(r.status)>>, FALSE)
              ELSE Return("null", FALSE, NotJson)
    ELSE IF ~r.body.json THEN Throw(JsonError, TRUE)
    ELSE IF ~ok(r.status)
         THEN Throw(<<"Klaviyo API error: ", errorMessage(r.body)>>, TRUE)
    ELSE Return("data", TRUE, r.body)

\* data?.data?.[0] || null
firstProfile(k) ==
    IF k.val = "data" /\ k.body.hasData /\ Len(k.body.data) > 0
    THEN k.body.data[1] ELSE NoProfile

-----------------------------------------------------------------------------
(* Reading the request *)

\* typeof req.body === 'string' ? JSON.parse(req.body) : req.body, then the
\* destructuring of its fields
parseBody(r) ==
    CASE r.body = "bad_string" -> [threw |-> TRUE, msg |-> JsonError, f |-> NoReq]
      [] r.body = "none" -> [threw |-> TRUE, msg |-> TypeError, f |-> NoReq]
      [] OTHER -> [threw |-> FALSE, msg |-> <<>>, f |-> r]

\* const { email } = req.body: a string body has no email property
\* src/api/unsubscribe.js:58
rawBody(r) ==
    CASE r.body = "none" -> [threw |-> TRUE, msg |-> TypeError, f |-> NoReq]
      [] r.body = "object" -> [threw |-> FALSE, msg |-> <<>>, f |-> r]
      [] OTHER -> [threw |-> FALSE, msg |-> <<>>, f |-> NoReq]

\* /^[^\s@]+@[^\s@]+\.[^\s@]+$/.test(email)
emailRegexTest(e) ==
    \E i \in 1..Len(e) : \E j \in 1..Len(e) :
        /\ e[i] = "@" /\ e[j] = "."
        /\ 1 < i /\ i + 1 < j /\ j < Len(e)
        /\ \A k \in 1..Len(e) : e[k] \notin {" ", "\t", "\n"} /\ (e[k] = "@" => k = i)

-----------------------------------------------------------------------------
(* Responses *)

NoRes ==
    [sent |-> 0, status |-> 0, kind |-> "none", success |-> "absent",
     error |-> <<>>, pref |-> "", isNew |-> FALSE, debug |-> FALSE,
     keyPrefix |-> <<>>, hasData |-> FALSE]

\* res.status(s).end()
End(s) == [NoRes EXCEPT !.sent = res.sent + 1, !.status = s, !.kind = "end"]
\* res.status(s).json({ success: false, error })
Fail(s, m) ==
    [NoRes EXCEPT !.sent = res.sent + 1, !.status = s, !.kind = "json",
                  !.success = "false", !.error = m]
\* res.status(200).json({ success: true, ... })
Success(p, d) ==
    [NoRes EXCEPT !.sent = res.sent + 1, !.status = 200, !.kind = "json",
                  !.success = "true", !.pref = p, !.hasData = d]

-----------------------------------------------------------------------------
(* Steps shared by the handlers *)

NoWrite == [name |-> "", value |-> NULL, stamp |-> "", email |-> NoEmail]
NoHist == [non2xx |-> FALSE, failed |-> FALSE, afterFailure |-> FALSE,
           notFound |-> FALSE]

\* Klaviyo's answer to a lookup that matches nothing: 200, { data: [] }
LookupEmpty(r) ==
    /\ ~r.net /\ r.status = 200 /\ isApplication(r.ct)
    /\ r.body.json /\ r.body.hasData /\ r.body.data = <<>>

\* a faulty Respond: the handler returns without sending the response
Respond_silent(r) ==
    /\ res' = res
    /\ pc' = "done"
    /\ UNCHANGED <<site, calls, inflight, last, hist>>

\* return res.status(...)...: the handler is over
Respond(r) ==
    /\ res' = r
    /\ pc' = "done"
    /\ UNCHANGED <<site, calls, inflight, last, hist>>

\* a faulty Issue: the request is fired twice, the first not awaited
IssueTwice(k) ==
    /\ pc' = "await"
    /\ site' = k
    /\ calls' = calls \o <<k, k>>
    /\ inflight' = inflight + 2
    /\ last' = NoResponse
    /\ hist' = [hist EXCEPT !.afterFailure = @ \/ hist.failed]
    /\ UNCHANGED res

\* await fetch(...): the call is sent and the handler is suspended on it
Issue(k) ==
    /\ pc' = "await"
    /\ site' = k
    /\ calls' = Append(calls, k)
    /\ inflight' = inflight + 1
    /\ last' = NoResponse
    /\ hist' = [hist EXCEPT !.afterFailure = @ \/ hist.failed]
    /\ UNCHANGED res

\* Klaviyo answers the outstanding call (or the network fails)
Fetch ==
    /\ pc = "await"
    /\ \E r \in Responses :
        /\ last' = r
        /\ hist' = [hist EXCEPT !.non2xx = @ \/ (~r.net /\ ~ok(r.status)),
                                !.failed = @ \/ r.net \/ ~ok(r.status),
                                !.notFound = @ \/ (site \in {"byEmail", "byProperty"}
                                                    /\ LookupEmpty(r))]
    /\ inflight' = inflight - 1
    /\ pc' = "ready"
    /\ UNCHANGED <<ep, req, site, calls, profile, lookups, written, acao, res,
                   apiKey>>

\* the platform invokes a handler with a request
Invoke ==
    /\ pc = "idle"
    /\ \E h \in Handlers : \E r \in Requests(h) :
        /\ ep' = h
        /\ req' = r
    /\ pc' = "start"
    /\ UNCHANGED <<site, inflight, calls, last, profile, lookups, written, hist,
                   acao, res, apiKey>>

Init ==
    /\ ep = ""
    /\ req = NoReq
    /\ pc = "idle"
    /\ site = ""
    /\ inflight = 0
    /\ calls = <<>>
    /\ last = NoResponse
    /\ profile = NoProfile
    /\ lookups = <<>>
    /\ written = NoWrite
    /\ hist = NoHist
    /\ acao = ""
    /\ res = NoRes
    /\ apiKey \in Keys

-----------------------------------------------------------------------------
(* The handlers.  Each is one action per stretch of code between awaits:   *)
(* pc = "start" runs from the entry to the first await or response, and    *)
(* pc = "ready" resumes at `site` with the response in `last`.             *)

MethodNotAllowed == <<"Method not allowed">>

\* error.message || fallback
orMessage(m, fallback) == IF m = <<>> THEN fallback ELSE m

\* src/api/health.js:8
health ==
    /\ ep = "health"
    /\ pc = "start"
    /\ acao' = "*"
    /\ IF req.method = "OPTIONS" THEN Respond(End(200))
       ELSE Respond(Success("", FALSE))
    /\ UNCHANGED <<ep, req, profile, lookups, written, apiKey>>

\* src/api/health.js:191
subscribe_v1 ==
    /\ ep = "subscribe_v1"
    /\ \/ /\ pc = "start"
          /\ acao' = "*"
          /\ IF req.method = "OPTIONS" THEN Respond(End(200))
             ELSE IF req.method # "POST" THEN Respond(Fail(405, MethodNotAllowed))
             ELSE LET b == parseBody(req)
                  IN  IF b.threw
                      THEN Respond(Fail(500, orMessage(b.msg, <<"Failed to subscribe">>)))
                      ELSE IF b.f.email = NoEmail
                      THEN Respond(Fail(400, <<"Email is required">>))
                      ELSE IF ~emailRegexTest(b.f.email)
                      THEN Respond(Fail(400, <<"Invalid email format">>))
                      ELSE Issue("subscribe")
       \/ /\ pc = "ready"
          /\ LET k == klaviyoRequest_subscribe_v1(last)
             IN  IF k.threw
                 THEN Respond(Fail(500, orMessage(k.msg, <<"Failed to subscribe">>)))
                 ELSE Respond(Success("", TRUE))
          /\ UNCHANGED acao
    /\ UNCHANGED <<ep, req, profile, lookups, written, apiKey>>

\* src/api/subscribe.js:69
subscribe ==
    /\ ep = "subscribe"
    /\ \/ /\ pc = "start"
          /\ acao' = "*"
          /\ IF req.method = "OPTIONS" THEN Respond(End(200))
             ELSE IF req.method # "POST" THEN Respond(Fail(405, MethodNotAllowed))
             ELSE LET b == parseBody(req)
                  IN  IF b.threw THEN Respond(Fail(500, b.msg))
                      ELSE IF b.f.email = NoEmail
                      THEN Respond(Fail(400, <<"Email is required">>))
                      ELSE IF ~emailRegexTest(b.f.email)
                      THEN Respond(Fail(400, <<"Invalid email format">>))
                      ELSE Issue("subscribe")
       \/ /\ pc = "ready"
          /\ LET k == klaviyoRequest_subscribe(last)
             IN  IF k.threw THEN Respond(Fail(500, k.msg))
                 ELSE Respond(Success("", TRUE))
          /\ UNCHANGED acao
    /\ UNCHANGED <<ep, req, profile, lookups, written, apiKey>>

\* src/unnamed/part_000:101
unsubscribe_v1 ==
    /\ ep = "unsubscribe_v1"
    /\ \/ /\ pc = "start"
          /\ acao' = "*"
          /\ IF req.method = "OPTIONS" THEN Respond(End(200))
             ELSE IF req.method # "POST" THEN Respond(Fail(405, MethodNotAllowed))
             ELSE LET b == parseBody(req)
                  IN  IF b.threw
                      THEN Respond(Fail(500, orMessage(b.msg, <<"Failed to unsubscribe">>)))
                      ELSE IF b.f.email = NoEmail
                      THEN Respond(Fail(400, <<"Email is required">>))
                      ELSE Issue("unsubscribe")
       \/ /\ pc = "ready"
          /\ LET k == klaviyoRequest_unsubscribe_v1(last)
             IN  IF k.threw
                 THEN Respond(Fail(500, orMessage(k.msg, <<"Failed to unsubscribe">>)))
                 ELSE Respond(Success("", TRUE))
          /\ UNCHANGED acao
    /\ UNCHANGED <<ep, req, profile, lookups, written, apiKey>>

\* src/unnamed/part_000:183
unsubscribe_v2 ==
    /\ ep = "unsubscribe_v2"
    /\ \/ /\ pc = "start"
          /\ acao' = "*"
          /\ IF req.method = "OPTIONS" THEN Respond(End(200))
             ELSE IF req.method # "POST" THEN Respond(Fail(405, MethodNotAllowed))
             ELSE LET b == parseBody(req)
                  IN  IF b.threw THEN Respond(Fail(500, b.msg))
                      ELSE IF b.f.email = NoEmail
                      THEN Respond(Fail(400, <<"Email is required">>))
                      ELSE Issue("unsubscribe")
       \/ /\ pc = "ready"
          /\ LET k == klaviyoRequest_unsubscribe_v2(last)
             IN  IF k.threw THEN Respond(Fail(500, k.msg))
                 ELSE Respond(Success("", FALSE))
          /\ UNCHANGED acao
    /\ UNCHANGED <<ep, req, profile, lookups, written, apiKey>>

\* a faulty getProfileIdByEmail: the empty result is not checked
getProfileIdByEmail_unchecked(k) ==
    [threw |-> FALSE, msg |-> <<>>, p |-> firstProfile(k)]

\* res?.data?.length of getProfileIdByEmail
\* src/api/unsubscribe.js:25
getProfileIdByEmail(k) ==
    IF k.val = "data" /\ k.body.hasData /\ Len(k.body.data) > 0
    THEN [threw |-> FALSE, msg |-> <<>>, p |-> k.body.data[1]]
    ELSE [threw |-> TRUE, msg |-> <<"Profile not found">>, p |-> NoProfile]

\* src/api/unsubscribe.js:52 (sets no CORS header and has no OPTIONS branch)
unsubscribe ==
    /\ ep = "unsubscribe"
    /\ \/ /\ pc = "start"
          /\ IF req.method # "POST" THEN Respond(Fail(405, <<>>))
             ELSE LET b == rawBody(req)
                  IN  IF b.threw THEN Respond(Fail(500, b.msg))
                      ELSE IF b.f.email = NoEmail
                      THEN Respond(Fail(500, <<"Email required">>))
                      ELSE Issue("byEmail")
          /\ UNCHANGED profile
       \/ /\ pc = "ready"
          /\ site = "byEmail"
          /\ LET k == klaviyoRequest_unsubscribe(last)
                 g == getProfileIdByEmail(k)
             IN  IF k.threw THEN Respond(Fail(500, k.msg)) /\ UNCHANGED profile
                 ELSE IF g.threw THEN Respond(Fail(500, g.msg)) /\ UNCHANGED profile
                 ELSE Issue("unsubscribe") /\ profile' = g.p
       \/ /\ pc = "ready"
          /\ site = "unsubscribe"
          /\ LET k == klaviyoRequest_unsubscribe(last)
             IN  IF k.threw THEN Respond(Fail(500, k.msg))
                 ELSE Respond(Success("", FALSE))
          /\ UNCHANGED profile
    /\ UNCHANGED <<ep, req, lookups, written, acao, apiKey>>

\* a faulty lists handler: the lists are fetched before the preflight test
lists_eager ==
    /\ ep = "lists"
    /\ \/ /\ pc = "start"
          /\ acao' = "*"
          /\ Issue("lists")
       \/ /\ pc = "ready"
          /\ IF req.method = "OPTIONS" THEN Respond(End(200))
             ELSE IF last.net THEN Respond(Fail(500, FetchError))
             ELSE IF ~last.body.json THEN Respond(Fail(500, JsonError))
             ELSE Respond(Success("", FALSE))
          /\ UNCHANGED acao
    /\ UNCHANGED <<ep, req, profile, lookups, written, apiKey>>

\* src/api/lists.js:11 (no method check, no response.ok check)
lists ==
    /\ ep = "lists"
    /\ \/ /\ pc = "start"
          /\ acao' = "*"
          /\ IF req.method = "OPTIONS" THEN Respond(End(200))
             ELSE Issue("lists")
       \/ /\ pc = "ready"
          /\ IF last.net THEN Respond(Fail(500, FetchError))
             ELSE IF ~last.body.json THEN Respond(Fail(500, JsonError))
             ELSE Respond(Success("", FALSE))
          /\ UNCHANGED acao
    /\ UNCHANGED <<ep, req, profile, lookups, written, apiKey>>

\* properties.preference || null
orNull(v) == IF Falsy(v) THEN NULL ELSE v

\* process.env.KLAVIYO_PRIVATE_API_KEY?.substring(0, 6) + '...'
\* src/api/profile.js:170
apiKeyPrefix(key) == substring(key, 6) \o <<".", ".", ".">>

\* the 200 and 500 bodies of the debug branch: { debug: true, ... }, no
\* success field; the 200 body carries apiKeyPrefix, the key's first six
\* characters
\* src/api/profile.js:167
DebugBody(s, m, k) ==
    [NoRes EXCEPT !.sent = res.sent + 1, !.status = s, !.kind = "json",
                  !.debug = TRUE, !.error = m, !.keyPrefix = k]

\* formatProfileResponse(profile).preferences.marketingPreference
\* src/api/profile.js:104
formatProfileResponse(p) ==
    IF p = NoProfile THEN Success("", FALSE)
    ELSE Success(parsePreference(orNull(p.preference)), TRUE)

\* a faulty getProfileByShopifyId: the fallback lookup is always issued
getProfileByShopifyId_always(k) == TRUE

\* if (data?.data?.[0]) return data.data[0]; otherwise the fallback lookup
\* src/api/profile.js:57
getProfileByShopifyId_fallback(k) == firstProfile(k) = NoProfile

\* src/api/profile.js:140
profile_handler ==
    /\ ep = "profile"
    /\ \/ /\ pc = "start"
          /\ acao' = "*"
          /\ IF req.method = "OPTIONS" THEN Respond(End(200))
             ELSE IF req.method = "GET"
             THEN IF req.email = NoEmail /\ req.shopifyId = ""
                  THEN Respond(Fail(400, <<"email or shopifyId required">>))
                  ELSE IF req.debug /\ req.email # NoEmail THEN Issue("debugFetch")
                  ELSE IF req.email # NoEmail THEN Issue("byEmail")
                  ELSE Issue("byExternalId")
             ELSE IF req.method = "POST"
             THEN LET b == parseBody(req)
                  IN  IF b.threw THEN Respond(Fail(500, b.msg))
                      ELSE IF b.f.email = NoEmail
                      THEN Respond(Fail(400, <<"Email is required">>))
                      ELSE Issue("create")
             ELSE IF req.method = "PATCH"
             THEN LET b == parseBody(req)
                  IN  IF b.threw THEN Respond(Fail(500, b.msg))
                      ELSE IF b.f.email = NoEmail /\ b.f.shopifyId = ""
                      THEN Respond(Fail(400, <<"email or shopifyId required">>))
                      ELSE IF b.f.email # NoEmail THEN Issue("byEmail")
                      ELSE Issue("byExternalId")
             ELSE Respond(Fail(405, MethodNotAllowed))
          /\ UNCHANGED <<profile, lookups>>
       \/ /\ pc = "ready"
          /\ site = "debugFetch"
          /\ IF last.net THEN Respond(DebugBody(500, FetchError, <<>>))
             ELSE IF ~last.body.json THEN Respond(DebugBody(500, JsonError, <<>>))
             ELSE Respond(DebugBody(200, <<>>, apiKeyPrefix(apiKey)))
          /\ UNCHANGED <<profile, lookups, acao>>
       \/ /\ pc = "ready"
          /\ site \in {"byEmail", "byExternalId", "byProperty"}
          /\ LET k == klaviyoRequest_profile(last)
                 p == firstProfile(k)
             IN  IF k.threw
                 THEN Respond(Fail(500, k.msg)) /\ UNCHANGED <<profile, lookups>>
                 ELSE IF site = "byExternalId" /\ getProfileByShopifyId_fallback(k)
                 THEN Issue("byProperty") /\ lookups' = <<p>> /\ UNCHANGED profile
                 ELSE /\ profile' = p
                      /\ lookups' = IF site = "byEmail" THEN lookups
                                    ELSE Append(lookups, p)
                      /\ IF p = NoProfile
                         THEN Respond(Fail(404, <<"Profile not found">>))
                         ELSE IF req.method = "GET"
                         THEN Respond(formatProfileResponse(p))
                         ELSE Issue("update")
          /\ UNCHANGED acao
       \/ /\ pc = "ready"
          /\ site \in {"create", "update"}
          /\ LET k == klaviyoRequest_profile(last)
             IN  IF k.threw THEN Respond(Fail(500, k.msg))
                 ELSE Issue("reread")
          /\ UNCHANGED <<profile, lookups, acao>>
       \/ /\ pc = "ready"
          /\ site = "reread"
          /\ LET k == klaviyoRequest_profile(last)
             IN  IF k.threw THEN Respond(Fail(500, k.msg))
                 ELSE Respond(formatProfileResponse(firstProfile(k)))
          /\ UNCHANGED <<profile, lookups, acao>>
    /\ UNCHANGED <<ep, req, written, apiKey>>

\* the characters of a UI value
UiChars(v) ==
    CASE v = "menswear" -> <<"m", "e", "n", "s", "w", "e", "a", "r">>
      [] v = "womenswear" -> <<"w", "o", "m", "e", "n", "s", "w", "e", "a", "r">>
      [] v = "both" -> <<"b", "o", "t", "h">>
      [] OTHER -> <<"n", "o", "_", "p", "r", "e", "f", "e", "r", "e", "n", "c", "e">>

\* marketing_preference || 'no_preference'
orNoPreference(v) == IF v = "" THEN "no_preference" ELSE v

\* formatPreferencesResponse(profile).marketing_preference
\* src/api/preferences.js:131
formatPreferencesResponse(p) ==
    IF p = NoProfile THEN Success("", FALSE)
    ELSE Success(orNoPreference(p.marketing_preference), TRUE)

\* the default of a GET that finds no profile: isNewProfile: true
NewProfile == [Success("no_preference", TRUE) EXCEPT !.isNew = TRUE]

\* a faulty payload: the email is left out of the attributes
preferencesPayload_anonymous(e, v) ==
    [name |-> "marketing_preference", value |-> Str(UiChars(orNoPreference(v))),
     stamp |-> "marketing_preference_updated_at", email |-> NoEmail]

\* the properties of updateProfilePreferences and createProfileWithPreferences
\* src/api/preferences.js:87
preferencesPayload(e, v) ==
    [name |-> "marketing_preference", value |-> Str(UiChars(orNoPreference(v))),
     stamp |-> "marketing_preference_updated_at", email |-> e]

\* src/api/preferences.js:66
getProfileByShopifyId_preferences_fallback(k) == firstProfile(k) = NoProfile

InvalidPreference == <<"Invalid marketing_preference. Must be one of: ",
                       "menswear, womenswear, both, no_preference">>

\* src/api/preferences.js:167
preferences ==
    /\ ep = "preferences"
    /\ \/ /\ pc = "start"
          /\ acao' = "*"
          /\ IF req.method = "OPTIONS" THEN Respond(End(200))
             ELSE IF req.method = "GET"
             THEN IF req.email = NoEmail /\ req.shopifyId = ""
                  THEN Respond(Fail(400,
                         <<"Either email or shopifyId query parameter is required">>))
                  ELSE IF req.email # NoEmail THEN Issue("byEmail")
                  ELSE Issue("byExternalId")
             ELSE IF req.method = "POST"
             THEN LET b == parseBody(req)
                  IN  IF b.threw
                      THEN Respond(Fail(500, orMessage(b.msg, <<"Internal server error">>)))
                      ELSE IF b.f.email = NoEmail /\ b.f.shopifyId = ""
                      THEN Respond(Fail(400, <<"Either email or shopifyId is required">>))
                      ELSE IF b.f.pref # "" /\ b.f.pref \notin VALID_PREFERENCES
                      THEN Respond(Fail(400, InvalidPreference))
                      ELSE IF b.f.email # NoEmail THEN Issue("byEmail")
                      ELSE Issue("byExternalId")
             ELSE Respond(Fail(405, MethodNotAllowed))
          /\ UNCHANGED <<profile, lookups, written>>
       \/ /\ pc = "ready"
          /\ site \in {"byEmail", "byExternalId", "byProperty"}
          /\ LET k == klaviyoRequest_preferences(last)
                 p == firstProfile(k)
             IN  IF k.threw
                 THEN /\ Respond(Fail(500, orMessage(k.msg, <<"Internal server error">>)))
                      /\ UNCHANGED <<profile, lookups, written>>
                 ELSE IF site = "byExternalId" /\ getProfileByShopifyId_preferences_fallback(k)
                 THEN Issue("byProperty") /\ lookups' = <<p>>
                      /\ UNCHANGED <<profile, written>>
                 ELSE /\ profile' = p
                      /\ lookups' = IF site = "byEmail" THEN lookups
                                    ELSE Append(lookups, p)
                      /\ IF req.method = "GET"
                         THEN /\ IF p = NoProfile THEN Respond(NewProfile)
                                 ELSE Respond(formatPreferencesResponse(p))
                              /\ UNCHANGED written
                         ELSE IF p = NoProfile
                         THEN IF req.email = NoEmail
                              THEN /\ Respond(Fail(404,
                                        <<"Profile not found. Email is required to create a new profile.">>))
                                   /\ UNCHANGED written
                              ELSE /\ Issue("create")
                                   /\ written' = preferencesPayload(req.email, req.pref)
                         ELSE /\ Issue("update")
                              /\ written' = preferencesPayload(NoEmail, req.pref)
          /\ UNCHANGED acao
       \/ /\ pc = "ready"
          /\ site \in {"create", "update"}
          /\ LET k == klaviyoRequest_preferences(last)
             IN  IF k.threw
                 THEN Respond(Fail(500, orMessage(k.msg, <<"Internal server error">>)))
                 ELSE Issue("reread")
          /\ UNCHANGED <<profile, lookups, written, acao>>
       \/ /\ pc = "ready"
          /\ site = "reread"
          /\ LET k == klaviyoRequest_preferences(last)
             IN  IF k.threw
                 THEN /\ Respond(Fail(500, orMessage(k.msg, <<"Internal server error">>)))
                      /\ UNCHANGED profile
                 ELSE /\ profile' = firstProfile(k)
                      /\ Respond(formatPreferencesResponse(firstProfile(k)))
          /\ UNCHANGED <<lookups, written, acao>>
    /\ UNCHANGED <<ep, req, apiKey>>

\* the properties of updateProfilePreferences and createProfileWithPreferences
\* src/unnamed/part_001:67
preferencesPayload_v2(e, v) ==
    [name |-> "preference", value |-> PREFERENCE_MAP(v),
     stamp |-> "preference_updated_at", email |-> e]

\* { marketing_preference: parsePreference(raw) }
\* src/unnamed/part_001:172
preferencesResponse_v2(p) ==
    Success(parsePreference_v2(IF p = NoProfile THEN NULL ELSE orNull(p.preference)),
            TRUE)

\* src/unnamed/part_001:113
preferences_v2 ==
    /\ ep = "preferences_v2"
    /\ \/ /\ pc = "start"
          /\ acao' = "*"
          /\ IF req.method = "OPTIONS" THEN Respond(End(200))
             ELSE IF req.method = "GET"
             THEN IF req.email = NoEmail
                  THEN Respond(Fail(400, <<"email query parameter is required">>))
                  ELSE Issue("byEmail")
             ELSE IF req.method = "POST"
             THEN LET b == parseBody(req)
                  IN  IF b.threw THEN Respond(Fail(500, b.msg))
                      ELSE IF b.f.email = NoEmail /\ b.f.shopifyId = ""
                      THEN Respond(Fail(400, <<"email or shopifyId is required">>))
                      ELSE IF b.f.pref # "" /\ b.f.pref \notin VALID_PREFERENCES
                      THEN Respond(Fail(400, InvalidPreference))
                      ELSE IF b.f.email # NoEmail THEN Issue("byEmail")
                      ELSE Respond(Fail(404, <<"Profile not found">>))
             ELSE Respond(Fail(405, MethodNotAllowed))
          /\ UNCHANGED <<profile, written>>
       \/ /\ pc = "ready"
          /\ site = "byEmail"
          /\ LET k == klaviyoRequest_preferences_v2(last)
                 p == firstProfile(k)
             IN  IF k.threw
                 THEN Respond(Fail(500, k.msg)) /\ UNCHANGED <<profile, written>>
                 ELSE /\ profile' = p
                      /\ IF req.method = "GET"
                         THEN /\ IF p = NoProfile THEN Respond(NewProfile)
                                 ELSE Respond(preferencesResponse_v2(p))
                              /\ UNCHANGED written
                         ELSE IF p = NoProfile
                         THEN /\ Issue("create")
                              /\ written' = preferencesPayload_v2(req.email, req.pref)
                         ELSE /\ Issue("update")
                              /\ written' = preferencesPayload_v2(NoEmail,
                                                orNoPreference(req.pref))
          /\ UNCHANGED acao
       \/ /\ pc = "ready"
          /\ site \in {"create", "update"}
          /\ LET k == klaviyoRequest_preferences_v2(last)
             IN  IF k.threw THEN Respond(Fail(500, k.msg))
                 ELSE Issue("reread")
          /\ UNCHANGED <<profile, written, acao>>
       \/ /\ pc = "ready"
          /\ site = "reread"
          /\ LET k == klaviyoRequest_preferences_v2(last)
             IN  IF k.threw THEN Respond(Fail(500, k.msg)) /\ UNCHANGED profile
                 ELSE /\ profile' = firstProfile(k)
                      /\ Respond(preferencesResponse_v2(firstProfile(k)))
          /\ UNCHANGED <<written, acao>>
    /\ UNCHANGED <<ep, req, lookups, apiKey>>

-----------------------------------------------------------------------------

Next ==
    \/ Invoke
    \/ Fetch
    \/ health
    \/ subscribe_v1
    \/ subscribe
    \/ unsubscribe_v1
    \/ unsubscribe_v2
    \/ unsubscribe
    \/ lists
    \/ profile_handler
    \/ preferences
    \/ preferences_v2

Spec == Init /\ [][Next]_vars

\* the code of the invoked handler: the stretch it is at runs
Handle ==
    \/ health
    \/ subscribe_v1
    \/ subscribe
    \/ unsubscribe_v1
    \/ unsubscribe_v2
    \/ unsubscribe
    \/ lists
    \/ profile_handler
    \/ preferences
    \/ preferences_v2

\* the event loop runs a handler's code once it can run, and every
\* downstream call eventually completes
FairSpec == Spec /\ WF_vars(Handle) /\ WF_vars(Fetch)

-----------------------------------------------------------------------------
(* Properties *)

Done == pc = "done"

\* the methods each endpoint supports
Supported(h) ==
    CASE h \in {"health", "lists"} -> {"GET"}
      [] h \in {"subscribe_v1", "subscribe", "unsubscribe", "unsubscribe_v1",
                "unsubscribe_v2"} -> {"POST"}
      [] h = "profile" -> {"GET", "POST", "PATCH"}
      [] OTHER -> {"GET", "POST"}

\* the klaviyoRequest helper of each handler (lists and health have none)
HelperOf(h, r) ==
    CASE h = "subscribe_v1" -> klaviyoRequest_subscribe_v1(r)
      [] h = "subscribe" -> klaviyoRequest_subscribe(r)
      [] h = "unsubscribe" -> klaviyoRequest_unsubscribe(r)
      [] h = "unsubscribe_v1" -> klaviyoRequest_unsubscribe_v1(r)
      [] h = "unsubscribe_v2" -> klaviyoRequest_unsubscribe_v2(r)
      [] h = "profile" -> klaviyoRequest_profile(r)
      [] h = "preferences" -> klaviyoRequest_preferences(r)
      [] OTHER -> klaviyoRequest_preferences_v2(r)

UsesHelper == ep \notin {"", "health", "lists"} /\ site # "debugFetch"

\* C1: every response of every handler carries Access-Control-Allow-Origin: *
\* and an OPTIONS request is answered with 200.
C1_CorsOnEveryResponse ==
    Done => acao = "*" /\ (req.method = "OPTIONS" => res.status = 200)

\* C2: once a downstream call of the invocation has returned a non-2xx
\* status, the invocation ends with 500, success = false and an error, never
\* with 200 or success = true.
C2_Non2xxEndsIn500 ==
    Done /\ hist.non2xx =>
        res.status = 500 /\ res.kind = "json" /\ res.success = "false"

\* the request is of a supported method and lacks the input the endpoint
\* requires: no body at all, or no email (and no shopifyId where that is
\* accepted instead)
MissingInput ==
    /\ req.method \in Supported(ep)
    /\ ep \notin {"health", "lists"}
    /\ IF req.method = "GET"
       THEN IF ep = "preferences_v2" THEN req.email = NoEmail
            ELSE req.email = NoEmail /\ req.shopifyId = ""
       ELSE /\ req.body # "bad_string"
            /\ \/ req.body = "none"
               \/ IF ep \in {"preferences", "preferences_v2"}
                     \/ (ep = "profile" /\ req.method = "PATCH")
                  THEN req.email = NoEmail /\ req.shopifyId = ""
                  ELSE req.email = NoEmail

\* C3: a request of a supported method whose required input is missing is
\* answered with 400.
C3_MissingInputIs400 == Done /\ MissingInput => res.status = 400

\* C4: a request whose method is neither OPTIONS nor one the endpoint
\* supports is answered with 405.
C4_UnsupportedMethodIs405 ==
    Done /\ req.method # "OPTIONS" /\ req.method \notin Supported(ep) =>
        res.status = 405

\* C5 as claimed: whenever the lookup of a profile returned no profile the
\* invocation is answered with 404.
C5_NotFoundIs404 == Done /\ hist.notFound => res.status = 404

\* C5 amended: when the lookup returns no profile, profile GET and PATCH and
\* a preferences POST that carries no email answer 404; a preferences GET
\* answers 200 with the default no_preference marked isNewProfile; a
\* preferences POST with an email goes on to create the profile; the
\* lookup-based unsubscribe answers 500 "Profile not found".
C5_NotFoundOutcome ==
    hist.notFound /\ pc \in {"await", "done"} =>
        CASE ep = "profile" -> Done /\ res.status = 404 /\ res.success = "false"
          [] ep = "unsubscribe" ->
                Done /\ res.status = 500 /\ res.error = <<"Profile not found">>
          [] ep \in {"preferences", "preferences_v2"} /\ req.method = "GET" ->
                /\ Done /\ res.status = 200 /\ res.success = "true"
                /\ res.isNew /\ res.pref = "no_preference"
          [] ep = "preferences" /\ req.email = NoEmail ->
                Done /\ res.status = 404 /\ res.success = "false"
          [] OTHER ->
                /\ Len(calls) >= 2 /\ calls[2] = "create"
                /\ Done => res.status \in {200, 500}

C5_Witness ==
    Done /\ hist.notFound /\ ep = "profile" /\ req.method = "PATCH"
         /\ res.status = 404

\* the UI value a POST /api/preferences asks for
Requested == IF req.pref = "" THEN "no_preference" ELSE req.pref

\* C6: parsePreference of the stored value PREFERENCE_MAP[v] is v for each
\* of the four UI values, so a value written by the preferences endpoint and
\* read back unchanged comes back as the value requested; and the copies of
\* parsePreference in the preferences and profile endpoints agree on every
\* stored value Klaviyo returns.
C6_PreferenceRoundTrip ==
    /\ written.name = "preference" =>
        /\ parsePreference_v2(written.value) = Requested
        /\ parsePreference(written.value) = Requested
        /\ (Requested = "both" =>
                includes(written.value.s, MENS) /\ includes(written.value.s, WOMENS))
    /\ (ep = "preferences_v2" /\ Done /\ res.status = 200 /\ req.method = "POST"
            /\ profile # NoProfile /\ profile.preference = written.value)
        => res.pref = Requested
    /\ \A i \in 1..Len(last.body.data) :
        parsePreference_v2(last.body.data[i].preference)
            = parsePreference(last.body.data[i].preference)

C6_Witness ==
    /\ ep = "preferences_v2" /\ Done /\ res.status = 200 /\ req.pref = "both"
    /\ written.value = Str(MENS \o <<",">> \o WOMENS)
    /\ profile.preference = written.value
    /\ res.pref = "both"

\* C7: in every klaviyoRequest helper a response with status 202 or 204 is
\* success with no body: the helper neither parses the body nor throws,
\* whatever the content type and body, and a handler whose last call it was
\* answers 200.
C7_AcceptedIsSuccess ==
    /\ pc = "ready" /\ UsesHelper /\ last.status \in {202, 204} =>
        ~HelperOf(ep, last).threw /\ ~HelperOf(ep, last).parsed
    /\ Done /\ site \in {"subscribe", "unsubscribe"} /\ last.status \in {202, 204} =>
        res.status = 200 /\ res.success = "true"

\* C8 as claimed: an invocation issues at most two downstream calls, one at
\* a time.
C8_AtMostTwoCalls == Len(calls) <= 2 /\ inflight <= 1

\* C8 amended: an invocation issues at most four downstream calls (a lookup
\* by Shopify id with its fallback, the write, the re-read), one at a time:
\* a call is outstanding exactly while the handler awaits it.
C8_AtMostFourSequentialCalls ==
    /\ Len(calls) <= 4
    /\ inflight <= 1
    /\ (pc = "await") = (inflight = 1)

C8_Witness == Done /\ Len(calls) = 4 /\ res.status = 200

\* C9: the lookup by Shopify id issues the external_id lookup first, the
\* lookup by the custom property only when the first returned no profile,
\* and returns the first lookup's profile if there is one, otherwise the
\* second's, otherwise null.
C9_FallbackChain ==
    /\ \A i \in 1..Len(calls) :
        /\ calls[i] = "byProperty" => i = 2 /\ calls[1] = "byExternalId"
        /\ calls[i] = "byExternalId" => i = 1
    /\ (\E i \in 1..Len(calls) : calls[i] = "byProperty") =>
        Len(lookups) >= 1 /\ lookups[1] = NoProfile
    /\ Len(lookups) = 2 => calls[2] = "byProperty"
    /\ (/\ lookups # <<>>
        /\ lookups[1] # NoProfile \/ Len(lookups) = 2
        /\ ~(ep = "preferences" /\ site = "reread" /\ Done))
        => profile = IF lookups[1] # NoProfile THEN lookups[1] ELSE lookups[2]

C9_Witness ==
    /\ ep = "profile" /\ Done /\ Len(lookups) = 2
    /\ lookups[1] = NoProfile /\ lookups[2] # NoProfile /\ profile = lookups[2]

\* C10: every response to a request other than OPTIONS is a JSON object
\* with a boolean success field.
C10_SuccessFieldOnEveryResponse ==
    Done /\ req.method # "OPTIONS" =>
        res.kind = "json" /\ res.success \in {"true", "false"}

\* the message carries the string: it is one of the parts it was built from
Carries(msg, str) == \E i \in 1..Len(msg) : msg[i] = str

\* a non-2xx JSON answer whose errors list has a first entry with a detail
\* or a title
ErrorsAnswer(r) ==
    /\ ~r.net /\ ~ok(r.status) /\ isApplication(r.ct) /\ r.body.json
    /\ r.body.hasErrors /\ Len(r.body.errors) > 0
    /\ (r.body.errors[1].detail # "" \/ r.body.errors[1].title # "")

\* the first error's detail, or its title when it has no detail
DetailOrTitle(b) ==
    IF b.errors[1].detail # "" THEN b.errors[1].detail ELSE b.errors[1].title

\* C11: when a downstream call returns a non-2xx JSON response with an
\* errors list, every klaviyoRequest helper throws an error whose message
\* carries the first error's detail, or its title when it has no detail, and
\* the handler surfaces that message in its 500 response.
C11_ErrorCarriesDetailOrTitle ==
    /\ pc = "ready" /\ UsesHelper /\ ErrorsAnswer(last) =>
        /\ HelperOf(ep, last).threw
        /\ Carries(HelperOf(ep, last).msg, DetailOrTitle(last.body))
    /\ Done /\ UsesHelper /\ ErrorsAnswer(last) =>
        res.status = 500 /\ Carries(res.error, DetailOrTitle(last.body))

\* C12: no retries: once a downstream call of the invocation has failed
\* (non-2xx status or network error) the invocation issues no further
\* downstream call: none is issued after the failure and none is outstanding.
C12_NoCallAfterFailure ==
    /\ ~hist.afterFailure
    /\ hist.failed => pc \in {"ready", "done"} /\ inflight = 0

C12_Witness ==
    /\ Done /\ hist.failed /\ last.net
    /\ calls = <<"byExternalId", "byProperty", "update">>
    /\ res.status = 500

\* the response body holds a part of the key: a string of the body contains
\* the key's leading characters
BodyHoldsKeyPart ==
    \E n \in 1..Len(apiKey) : includes(res.keyPrefix, substring(apiKey, n))

\* C13: no response body of any endpoint, for any request, contains the
\* value of KLAVIYO_PRIVATE_API_KEY or any part of it.
C13_KeyNeverInResponse == Done => ~BodyHoldsKeyPart

\* the four values the UI offers
UiValues == {"menswear", "womenswear", "both", "no_preference"}

\* a POST to a preferences endpoint whose body parses and names a
\* non-empty marketing_preference that is none of the four values
InvalidPreferencePost ==
    /\ ep \in {"preferences", "preferences_v2"}
    /\ req.method = "POST"
    /\ req.body \in {"object", "json_string"}
    /\ req.pref # "" /\ req.pref \notin UiValues

\* C14: a POST /api/preferences whose marketing_preference is a non-empty
\* value other than menswear, womenswear, both and no_preference is answered
\* with 400, and no downstream call, so no write, is issued for it.
C14_InvalidPreferenceIs400 ==
    InvalidPreferencePost =>
        /\ calls = <<>> /\ written = NoWrite
        /\ Done => res.status = 400 /\ res.success = "false"

C14_Witness ==
    /\ Done /\ ep = "preferences" /\ req.method = "POST"
    /\ req.email = GoodEmail /\ req.shopifyId = "12345" /\ req.pref = "shoes"
    /\ res.status = 400 /\ res.error = InvalidPreference /\ calls = <<>>

\* a POST to a preferences endpoint that carries an email, after its lookup
\* by that email was answered with an empty data list and handled
CreateCase ==
    /\ ep \in {"preferences", "preferences_v2"}
    /\ req.method = "POST" /\ req.email # NoEmail
    /\ hist.notFound
    /\ ~(pc = "ready" /\ site = "byEmail")

\* the value each revision stores for the requested preference
StoredValue ==
    IF ep = "preferences" THEN Str(UiChars(Requested)) ELSE PREFERENCE_MAP(Requested)

\* C15: a POST /api/preferences with an email whose lookup finds no profile
\* issues exactly one profile-creation call, carrying that email and the
\* requested preference, and no update; once the creation and the re-read
\* have succeeded it has issued lookup, creation, re-read and answers 200,
\* and it answers 500 only when one of those two calls failed.
C15_CreatesMissingProfile ==
    CreateCase =>
        /\ Len(calls) >= 2 /\ calls[1] = "byEmail" /\ calls[2] = "create"
        /\ \A i \in 1..Len(calls) : (calls[i] = "create" => i = 2) /\ calls[i] # "update"
        /\ written.email = req.email /\ written.value = StoredValue
        /\ Done =>
            \/ res.status = 200 /\ calls = <<"byEmail", "create", "reread">>
            \/ res.status = 500 /\ HelperOf(ep, last).threw

C15_Witness ==
    /\ Done /\ ep = "preferences" /\ hist.notFound
    /\ req.email = GoodEmail /\ req.pref = "both"
    /\ calls = <<"byEmail", "create", "reread">>
    /\ written.email = GoodEmail /\ written.value = Str(UiChars("both"))
    /\ res.status = 200

\* a request of a supported method that hands the endpoint an email which
\* is not of the shape local@domain.tld
MalformedEmailRequest ==
    /\ ep \notin {"", "health", "lists"}
    /\ req.method \in Supported(ep)
    /\ req.method = "GET" \/ req.body \in {"object", "json_string"}
    /\ req.email # NoEmail /\ ~emailRegexTest(req.email)

\* C16: in every endpoint that receives an email, an email that is not of
\* the shape local@domain.tld is rejected with 400 and is never forwarded in
\* a downstream call.
C16_MalformedEmailIs400 ==
    MalformedEmailRequest => calls = <<>> /\ (Done => res.status = 400)

\* a well-formed GET or POST to a preferences endpoint that names the
\* profile by shopifyId alone
ShopifyIdOnly ==
    /\ ep \in {"preferences", "preferences_v2"}
    /\ \/ req.method = "GET"
       \/ req.method = "POST" /\ req.body \in {"object", "json_string"}
    /\ req.email = NoEmail /\ req.shopifyId # ""
    /\ req.pref \in UiValues \cup {""}

\* the profile the lookup chain by shopifyId found, NoProfile if none
Found ==
    IF lookups = <<>> THEN NoProfile
    ELSE IF lookups[1] # NoProfile THEN lookups[1]
    ELSE IF Len(lookups) = 2 THEN lookups[2] ELSE NoProfile

\* C17: a GET or POST /api/preferences that carries only a shopifyId looks
\* the profile up by that id; when the profile exists the GET answers 200
\* with its preference and the POST updates it and answers 200, unless a
\* downstream call failed (500).
C17_ShopifyIdAlone ==
    Done /\ ShopifyIdOnly =>
        /\ calls # <<>> /\ calls[1] = "byExternalId"
        /\ \/ res.status = 500 /\ HelperOf(ep, last).threw
           \/ Found = NoProfile
           \/ /\ res.status = 200 /\ res.success = "true"
              /\ IF req.method = "GET"
                 THEN res.pref = orNoPreference(Found.marketing_preference)
                 ELSE /\ calls[Len(calls) - 1] = "update"
                      /\ written.value = Str(UiChars(Requested))

\* C18: after every successful POST /api/preferences the property written
\* downstream is marketing_preference, its value is one of menswear,
\* womenswear, both and no_preference, and marketing_preference_updated_at
\* is written in the same call.
C18_WrittenProperty ==
    (Done /\ ep \in {"preferences", "preferences_v2"} /\ req.method = "POST"
          /\ res.status = 200) =>
        /\ written.name = "marketing_preference"
        /\ written.value \in {Str(UiChars(v)) : v \in UiValues}
        /\ written.stamp = "marketing_preference_updated_at"

\* C19: validation precedes every downstream call: an invocation that is
\* answered with 400 or 405, or that handles OPTIONS, has issued no
\* downstream call.
C19_NoCallBeforeRejection ==
    Done /\ (res.status \in {400, 405} \/ req.method = "OPTIONS") =>
        calls = <<>> /\ inflight = 0 /\ written = NoWrite

C19_Witness ==
    /\ Done /\ ep = "subscribe" /\ req.method = "POST" /\ req.email = BadEmail
    /\ res.status = 400 /\ res.error = <<"Invalid email format">>
    /\ calls = <<>>

\* C20: every handler invocation sends exactly one response and then stops,
\* for any request and any outcome of each downstream call, provided each
\* downstream call eventually completes: no response is sent twice, the
\* handler is over exactly when its response is sent, nothing happens after
\* that, and every invocation gets there.
C20_ExactlyOneResponse ==
    /\ [](res.sent <= 1 /\ (Done <=> res.sent = 1))
    /\ [][Done => UNCHANGED vars]_vars
    /\ (pc = "start") ~> (Done /\ res.sent = 1)

C20_Witness ==
    /\ Done /\ res.sent = 1 /\ ep = "preferences" /\ req.body = "json_string"
    /\ Len(calls) = 3 /\ last.net /\ res.status = 500

====
